---- MODULE Spec2Model ----
(***************************************************************************)
(* A model of the cereal codec: the checksum-counting Writer, the older    *)
(* Writer that tracks currentOffset itself, and the Reader over a          *)
(* seekable byte view.  Bytes are integers 0..255, byte strings are        *)
(* sequences of bytes, Go strings are the sequences of their UTF-8 bytes.  *)
(***************************************************************************)
EXTENDS Integers, Sequences, FiniteSets

VARIABLES
    w,      \* the Writer over the checksum-counting sink (HashWriter)
    wcalls, \* history: one record per Writer call that returned
    ow,     \* the Writer that tracks currentOffset itself
    ocalls, \* history: one record per call of that Writer
    r,      \* the Reader: its byteSeeker (buf, offset), or not constructed
    rcalls  \* history: one record per Reader call

vars == <<w, wcalls, ow, ocalls, r, rcalls>>

-----------------------------------------------------------------------------
(* Bounds of the model. *)

\* Calls made on one Writer.
MaxCalls == 2

\* Calls made on one Reader.
MaxReads == 2

\* The block size of the chunked compression, 64 KiB in the program, scaled
\* down so that payloads of one block and more stay small.
lz4BlockSize == 3

-----------------------------------------------------------------------------
(* The DataType enumeration and its display names. *)

Any == 0
Boolean == 1
Integer == 2
UnsignedInteger == 3
Float == 4
Byte == 5
Bytes == 6
String == 7
StringSlice == 8
KeyValueMap == 9

dataTypeStrings ==
    [d \in Any..KeyValueMap |->
        CASE d = Any -> "any"
          [] d = Boolean -> "bool"
          [] d = Integer -> "int"
          [] d = UnsignedInteger -> "uint"
          [] d = Float -> "float"
          [] d = Byte -> "byte"
          [] d = Bytes -> "bytes"
          [] d = String -> "string"
          [] d = StringSlice -> "strings"
          [] d = KeyValueMap -> "kvmap"]

\* DataType.String: a map lookup, the empty string for a code with no entry.
DataTypeString(d) == IF d \in DOMAIN dataTypeStrings THEN dataTypeStrings[d] ELSE ""

-----------------------------------------------------------------------------
(* encoding/binary varints, as the Writer and the Reader call them. *)

MaxVarintLen64 == 10

RECURSIVE Pow128(_)
Pow128(i) == IF i = 0 THEN 1 ELSE 128 * Pow128(i - 1)

\* binary.PutUvarint: 7 bits per byte, least significant group first, the
\* high bit set on every byte but the last.
RECURSIVE PutUvarint(_)
PutUvarint(v) ==
    IF v >= 128 THEN <<(v % 128) + 128>> \o PutUvarint(v \div 128) ELSE <<v>>

\* A zigzag step that does not complement a negative x: -1 and 1 would
\* share an encoding.
ZigZag_NoComplement(x) == IF x < 0 THEN -2 * x ELSE 2 * x

\* The zigzag step of binary.PutVarint: ux = uint64(x) << 1, complemented
\* when x < 0.
ZigZag(x) == IF x < 0 THEN -2 * x - 1 ELSE 2 * x

PutVarint(x) == PutUvarint(ZigZag(x))

\* binary.Uvarint over a window b: <<value, n>>, n = 0 when the window ends
\* inside the varint, n < 0 on overflow.
RECURSIVE UvarintFrom(_, _, _)
UvarintFrom(b, i, x) ==
    IF i > Len(b) THEN <<0, 0>>
    ELSE IF i = MaxVarintLen64 + 1 THEN <<0, -i>>
    ELSE IF b[i] < 128 THEN
        IF i = MaxVarintLen64 /\ b[i] > 1 THEN <<0, -i>>
        ELSE <<(IF b[i] = 0 THEN x ELSE x + b[i] * Pow128(i - 1)), i>>
    ELSE UvarintFrom(b, i + 1,
                     IF b[i] = 128 THEN x ELSE x + (b[i] - 128) * Pow128(i - 1))

Uvarint(b) == UvarintFrom(b, 1, 0)

\* binary.Varint: the unsigned value, un-zigzagged.
Varint(b) ==
    LET u == Uvarint(b)
        ux == u[1]
    IN  <<(IF ux % 2 = 1 THEN -(ux \div 2) - 1 ELSE ux \div 2), u[2]>>

-----------------------------------------------------------------------------
(* Values handed to Write and returned by Read.  A value is a record with  *)
(* a kind and one payload field per shape, the others at their zero value: *)
(*   b   a BOOLEAN                                                         *)
(*   i   an integer (int64, uint64 or a byte)                              *)
(*   s   a byte string (for a float: its big-endian IEEE-754 image, 4      *)
(*       bytes for a float32 and 8 for a float64)                          *)
(*   ss  a sequence of byte strings                                        *)
(*   es  for a map, its entries [k, v] in the order range yields them      *)

Val(kind, b, i, s, ss, es) ==
    [kind |-> kind, b |-> b, i |-> i, s |-> s, ss |-> ss, es |-> es]

VBool(b) == Val("bool", b, 0, <<>>, <<>>, <<>>)
VInt(i) == Val("int", FALSE, i, <<>>, <<>>, <<>>)
VUint(u) == Val("uint", FALSE, u, <<>>, <<>>, <<>>)
VFloat(bits) == Val("float", FALSE, 0, bits, <<>>, <<>>)
VByte(b) == Val("byte", FALSE, b, <<>>, <<>>, <<>>)
VBytes(bs) == Val("bytes", FALSE, 0, bs, <<>>, <<>>)
VString(s) == Val("string", FALSE, 0, s, <<>>, <<>>)
VStrings(ss) == Val("strings", FALSE, 0, <<>>, ss, <<>>)
VMap(es) == Val("kvmap", FALSE, 0, <<>>, <<>>, es)
VNil == Val("nil", FALSE, 0, <<>>, <<>>, <<>>)

\* The map a sequence of entries denotes (later entries win on a key).
MapOf(es) ==
    [key \in {es[i].k : i \in DOMAIN es} |->
        LET last == CHOOSE i \in DOMAIN es :
                        /\ es[i].k = key
                        /\ \A j \in DOMAIN es : es[j].k = key => j <= i
        IN  es[last].v]

\* Equality of values as Go values: maps compare as maps, whatever the order
\* their entries were produced in.
SameValue(a, b) ==
    /\ a.kind = b.kind
    /\ IF a.kind = "kvmap" THEN MapOf(a.es) = MapOf(b.es) ELSE a = b

\* The DataType Write tags a value with.
TypeOf(val) ==
    CASE val.kind = "bool" -> Boolean
      [] val.kind = "int" -> Integer
      [] val.kind = "uint" -> UnsignedInteger
      [] val.kind = "float" -> Float
      [] val.kind = "byte" -> Byte
      [] val.kind = "bytes" -> Bytes
      [] val.kind = "string" -> String
      [] val.kind = "strings" -> StringSlice
      [] val.kind = "kvmap" -> KeyValueMap

-----------------------------------------------------------------------------
(* HashWriter: a bufio.Writer over the sink, a CRC-32 and a byte count.    *)
(* The Writer's state is one record:                                       *)
(*   sink     the bytes the underlying sink holds                          *)
(*   open     whether the sink accepts writes                              *)
(*   pending  the bytes in the bufio.Writer's buffer                       *)
(*   berr     the bufio.Writer's sticky error                              *)
(*   crc      the bytes the CRC-32 has been updated with, in order         *)
(*   n        HashWriter.n                                                 *)
(*   checksum, excludeWriteType   the Writer's own fields                  *)
(* Every write of the model is shorter than the bufio.Writer's buffer.     *)

NewWriterFromBuffer ==
    [sink |-> <<>>, open |-> TRUE, pending |-> <<>>, berr |-> FALSE,
     crc |-> <<>>, n |-> 0, checksum |-> <<>>, excludeWriteType |-> FALSE]

\* bufio.Writer.Write: refused once the sticky error is set, buffered otherwise.
bufioWrite(ws, p) ==
    IF ws.berr THEN [w |-> ws, n |-> 0, err |-> "io"]
    ELSE [w |-> [ws EXCEPT !.pending = @ \o p], n |-> Len(p), err |-> "nil"]

\* bufio.Writer.Flush: hands the buffer to the sink; a sink that refuses it
\* sets the sticky error and the bytes stay in the buffer.
bufioFlush(ws) ==
    IF ws.berr THEN [w |-> ws, err |-> "io"]
    ELSE IF ws.pending = <<>> THEN [w |-> ws, err |-> "nil"]
    ELSE IF ws.open
         THEN [w |-> [ws EXCEPT !.sink = @ \o ws.pending, !.pending = <<>>],
               err |-> "nil"]
         ELSE [w |-> [ws EXCEPT !.berr = TRUE], err |-> "io"]

\* A HashWriter.Write that leaves the count alone.
hashAndCount_Uncounted(b, p) ==
    [w |-> bufioFlush([b.w EXCEPT !.crc = @ \o SubSeq(p, 1, b.n)]).w,
     n |-> b.n, err |-> b.err]

\* HashWriter.Write after its h.w.Write(p) returned b: update the checksum
\* and the count with the b.n bytes accepted, then the deferred Flush, whose
\* error is dropped.
hashAndCount(b, p) ==
    [w |-> bufioFlush([b.w EXCEPT !.crc = @ \o SubSeq(p, 1, b.n),
                                  !.n = @ + b.n]).w,
     n |-> b.n, err |-> b.err]

HashWriter_Write(ws, p) == hashAndCount(bufioWrite(ws, p), p)

\* A result without its byte count.
StateAndErr(x) == [w |-> x.w, err |-> x.err]

HashWriter_WriteByte(ws, b) == StateAndErr(HashWriter_Write(ws, <<b>>))

HashWriter_Count(ws) == ws.n

\* HashWriter.CRC32: the checksum, here the bytes it was updated with.
HashWriter_CRC32(ws) == ws.crc

-----------------------------------------------------------------------------
(* The Writer over the HashWriter.  Each write operator returns the        *)
(* Writer's state after the call with what the call returned.  A typed     *)
(* writer is a chain of writes that returns at the first error: t is the   *)
(* result of the chain so far.                                             *)

Offset(ws) == HashWriter_Count(ws)

\* The "Write type" block every typed writer starts with.
writeType(ws, t) ==
    IF ~ws.excludeWriteType THEN HashWriter_WriteByte(ws, t)
    ELSE [w |-> ws, err |-> "nil"]

\* if _, err = w.w.Write(p); err != nil { return 0, err }
thenWrite(t, p) ==
    IF t.err # "nil" THEN t ELSE StateAndErr(HashWriter_Write(t.w, p))

\* if err = w.w.WriteByte(b); err != nil { return 0, err }
thenWriteByte(t, b) ==
    IF t.err # "nil" THEN t ELSE HashWriter_WriteByte(t.w, b)

\* return offset, nil at the end of the chain, or 0, err from inside it.
returnOffset(offset, t) ==
    IF t.err # "nil" THEN [w |-> t.w, offset |-> 0, err |-> t.err]
    ELSE [w |-> t.w, offset |-> offset, err |-> "nil"]

writeUint(ws, v) ==
    returnOffset(HashWriter_Count(ws),
                 thenWrite(writeType(ws, UnsignedInteger), PutUvarint(v)))

writeInt(ws, v) ==
    returnOffset(HashWriter_Count(ws),
                 thenWrite(writeType(ws, Integer), PutVarint(v)))

\* floatValue: a float32 stays a float32 and a float64 a float64, so the
\* image keeps its 4 or 8 bytes.
floatValue(bits) == bits

\* binary.Write(w.w, binary.BigEndian, v): the 4 bytes of a float32 or the 8
\* bytes of a float64, in one Write.
writeFloat(ws, bits) ==
    returnOffset(HashWriter_Count(ws), thenWrite(writeType(ws, Float), bits))

\* appendBytes after the chain t: the length as a varint, then the bytes.
thenAppendBytes(t, b) == thenWrite(thenWrite(t, PutUvarint(Len(b))), b)

appendBytes(ws, b) == thenAppendBytes([w |-> ws, err |-> "nil"], b)

writeString(ws, s) ==
    returnOffset(HashWriter_Count(ws), thenAppendBytes(writeType(ws, String), s))

writeBytes(ws, b) ==
    returnOffset(HashWriter_Count(ws), thenAppendBytes(writeType(ws, Bytes), b))

\* The loop of writeStringSlice over s[i..].
RECURSIVE thenAppendStrings(_, _, _)
thenAppendStrings(t, s, i) ==
    IF i > Len(s) \/ t.err # "nil" THEN t
    ELSE thenAppendStrings(thenAppendBytes(t, s[i]), s, i + 1)

writeStringSlice(ws, s) ==
    returnOffset(HashWriter_Count(ws),
                 thenAppendStrings(thenWrite(writeType(ws, StringSlice),
                                             PutUvarint(Len(s))),
                                   s, 1))

writeBoolean(ws, b) ==
    returnOffset(HashWriter_Count(ws),
                 thenWriteByte(writeType(ws, Boolean), IF b THEN 1 ELSE 0))

RECURSIVE Write(_, _)
RECURSIVE thenWriteEntries(_, _, _)

\* w.excludeWriteType = true; w.writeString(k)
writeKey(ws, k) ==
    StateAndErr(writeString([ws EXCEPT !.excludeWriteType = TRUE], k))

\* w.excludeWriteType = false; w.Write(v), after the key's write returned t.
thenWriteValue(t, v) ==
    IF t.err # "nil" THEN t
    ELSE StateAndErr(Write([t.w EXCEPT !.excludeWriteType = FALSE], v))

\* The loop of writeKeyValueMap over the entries m[i..], in range order.  An
\* error returns at once, with excludeWriteType as the loop left it.
thenWriteEntries(t, m, i) ==
    IF i > Len(m) \/ t.err # "nil" THEN t
    ELSE thenWriteEntries(thenWriteValue(writeKey(t.w, m[i].k), m[i].v), m, i + 1)

\* w.excludeWriteType = tmpExcludeWriteType, reached when no write failed.
restoreExclude(t, tmpExcludeWriteType) ==
    IF t.err # "nil" THEN t
    ELSE [w |-> [t.w EXCEPT !.excludeWriteType = tmpExcludeWriteType],
          err |-> "nil"]

writeKeyValueMap(ws, m) ==
    returnOffset(HashWriter_Count(ws),
                 restoreExclude(thenWriteEntries(writeType(ws, KeyValueMap), m, 1),
                                ws.excludeWriteType))

\* The end of Writer.Write: 0, 0, err on an error, the length from the count
\* otherwise.
returnLength(x) ==
    IF x.err # "nil"
    THEN [w |-> x.w, offset |-> 0, length |-> 0, err |-> x.err]
    ELSE [w |-> x.w, offset |-> x.offset,
          length |-> HashWriter_Count(x.w) - x.offset, err |-> "nil"]

\* Writer.Write: dispatch on the value's dynamic type.
Write(ws, data) ==
    returnLength(CASE data.kind = "uint" -> writeUint(ws, data.i)
                   [] data.kind = "int" -> writeInt(ws, data.i)
                   [] data.kind = "float" -> writeFloat(ws, floatValue(data.s))
                   [] data.kind = "bytes" -> writeBytes(ws, data.s)
                   [] data.kind = "string" -> writeString(ws, data.s)
                   [] data.kind = "strings" -> writeStringSlice(ws, data.ss)
                   [] data.kind = "bool" -> writeBoolean(ws, data.b)
                   [] data.kind = "kvmap" -> writeKeyValueMap(ws, data.es))

\* The offset a raw write returns, whatever the write returned.
rawReturn(offset, x) == [w |-> x.w, offset |-> offset, err |-> x.err]

WriteRaw(ws, buf) == rawReturn(HashWriter_Count(ws), HashWriter_Write(ws, buf))

\* WriteRawByte also updates the Writer's own checksum field, whatever the
\* write returned.
updateChecksum(x, b) == [w |-> [x.w EXCEPT !.checksum = @ \o <<b>>], err |-> x.err]

WriteRawByte(ws, b) ==
    rawReturn(HashWriter_Count(ws), updateChecksum(HashWriter_WriteByte(ws, b), b))

SetExcludeWriteType(ws, b) == [ws EXCEPT !.excludeWriteType = b]

-----------------------------------------------------------------------------
(* Chunked block compression.  lz4.CompressBlock is outside the codec: a   *)
(* block either compresses to an image that determines it and fits zbuf,   *)
(* which is as long as the block (here every byte plus one, modulo 256),   *)
(* or yields no output, with or without an error.  Which of the three      *)
(* happens is an input of the call.                                        *)

CompressOutcomes == {"ok", "none", "error"}

CompressBlock(src, outcome) ==
    IF outcome = "ok"
    THEN [z |-> [i \in 1..Len(src) |-> (src[i] + 1) % 256], err |-> "nil"]
    ELSE IF outcome = "none" THEN [z |-> <<>>, err |-> "nil"]
    ELSE [z |-> <<>>, err |-> "lz4"]

Min(a, b) == IF a < b THEN a ELSE b

\* The number of chunks the loop of WriteRawToLZ4Compress reads from buf.
Chunks(buf) == (Len(buf) + lz4BlockSize - 1) \div lz4BlockSize

\* r.Read(chunkData) for chunk i: the next n bytes of buf over the first n
\* bytes of chunkData, the rest of chunkData as it was.
readChunk(buf, chunkData, i) ==
    SubSeq(buf, (i - 1) * lz4BlockSize + 1, Min(i * lz4BlockSize, Len(buf)))
    \o SubSeq(chunkData,
              Min(i * lz4BlockSize, Len(buf)) - (i - 1) * lz4BlockSize + 1,
              lz4BlockSize)

\* compSize, err := lz4.CompressBlock(chunkData, zbuf, ...), then
\* w.WriteRaw(zbuf[0:compSize]), whose error overwrites the compression's.
writeChunk(ws, chunkData, outcome) ==
    StateAndErr(WriteRaw(ws, CompressBlock(chunkData, outcome).z))

\* The loop of WriteRawToLZ4Compress from chunk i on, t the result so far.
RECURSIVE compressChunks(_, _, _, _, _)
compressChunks(t, buf, chunkData, outs, i) ==
    IF i > Chunks(buf) \/ t.err # "nil" THEN t
    ELSE compressChunks(writeChunk(t.w, readChunk(buf, chunkData, i), outs[i]),
                        buf, readChunk(buf, chunkData, i), outs, i + 1)

\* The return of WriteRawToLZ4Compress.
compressReturn(currentOffset, x) ==
    IF x.err # "nil"
    THEN [w |-> x.w, offset |-> 0, length |-> 0, err |-> x.err]
    ELSE [w |-> x.w, offset |-> currentOffset,
          length |-> HashWriter_Count(x.w) - currentOffset, err |-> "nil"]

WriteRawToLZ4Compress(ws, buf, outs) ==
    compressReturn(HashWriter_Count(ws),
                   compressChunks([w |-> ws, err |-> "nil"], buf,
                                  [i \in 1..lz4BlockSize |-> 0], outs, 1))

-----------------------------------------------------------------------------
(* The Writer of writer.go, which writes to the bufio.Writer itself and    *)
(* keeps currentOffset.  Its state: sink, open, pending, berr as above,    *)
(* and currentOffset.                                                      *)

Cur_NewWriterFromBuffer ==
    [sink |-> <<>>, open |-> TRUE, pending |-> <<>>, berr |-> FALSE,
     currentOffset |-> 0]

\* w.currentOffset += k, reached when the write before it returned no error.
Cur_advance(x, k) ==
    IF x.err # "nil" THEN StateAndErr(x)
    ELSE [w |-> [x.w EXCEPT !.currentOffset = @ + k], err |-> "nil"]

\* A write of p to the bufio.Writer after the chain t, then currentOffset
\* advanced by k.
Cur_thenWrite(t, p, k) ==
    IF t.err # "nil" THEN t ELSE Cur_advance(bufioWrite(t.w, p), k)

\* A write of p with no statement that advances currentOffset after it.
Cur_thenWriteUncounted(t, p) ==
    IF t.err # "nil" THEN t ELSE StateAndErr(bufioWrite(t.w, p))

\* The type byte, then w.currentOffset++.
Cur_writeType(ws, t) == Cur_thenWrite([w |-> ws, err |-> "nil"], <<t>>, 1)

Cur_writeUint(ws, v) ==
    returnOffset(ws.currentOffset,
                 Cur_thenWrite(Cur_writeType(ws, UnsignedInteger),
                               PutUvarint(v), Len(PutUvarint(v))))

Cur_writeInt(ws, v) ==
    returnOffset(ws.currentOffset,
                 Cur_thenWrite(Cur_writeType(ws, Integer),
                               PutVarint(v), Len(PutVarint(v))))

\* binary.Write of the 4 or 8 bytes, then w.currentOffset += 8.
Cur_writeFloat(ws, bits) ==
    returnOffset(ws.currentOffset, Cur_thenWrite(Cur_writeType(ws, Float), bits, 8))

Cur_thenAppendBytes(t, b) ==
    Cur_thenWrite(Cur_thenWrite(t, PutUvarint(Len(b)), Len(PutUvarint(Len(b)))),
                  b, Len(b))

Cur_writeString(ws, s) ==
    returnOffset(ws.currentOffset, Cur_thenAppendBytes(Cur_writeType(ws, String), s))

Cur_writeBytes(ws, b) ==
    returnOffset(ws.currentOffset, Cur_thenAppendBytes(Cur_writeType(ws, Bytes), b))

RECURSIVE Cur_thenAppendStrings(_, _, _)
Cur_thenAppendStrings(t, s, i) ==
    IF i > Len(s) \/ t.err # "nil" THEN t
    ELSE Cur_thenAppendStrings(Cur_thenAppendBytes(t, s[i]), s, i + 1)

Cur_writeStringSlice(ws, s) ==
    returnOffset(ws.currentOffset,
                 Cur_thenAppendStrings(
                     Cur_thenWrite(Cur_writeType(ws, StringSlice),
                                   PutUvarint(Len(s)), Len(PutUvarint(Len(s)))),
                     s, 1))

\* The value byte is written with no w.currentOffset++ after it.
Cur_writeBoolean(ws, b) ==
    returnOffset(ws.currentOffset,
                 Cur_thenWriteUncounted(Cur_writeType(ws, Boolean),
                                        <<IF b THEN 1 ELSE 0>>))

\* The end of Write: err = w.w.Flush(), the length from currentOffset.
Cur_flushReturn(currentOffset, x, f) ==
    [w |-> f.w, offset |-> x.offset,
     length |-> x.w.currentOffset - currentOffset, err |-> f.err]

Cur_return(currentOffset, x) ==
    IF x.err # "nil"
    THEN [w |-> x.w, offset |-> 0, length |-> 0, err |-> x.err]
    ELSE Cur_flushReturn(currentOffset, x, bufioFlush(x.w))

\* Writer.Write of writer.go; a map has no case and panics.
Cur_Write(ws, data) ==
    IF data.kind = "kvmap"
    THEN [w |-> ws, offset |-> 0, length |-> 0, err |-> "panic"]
    ELSE Cur_return(ws.currentOffset,
                    CASE data.kind = "uint" -> Cur_writeUint(ws, data.i)
                      [] data.kind = "int" -> Cur_writeInt(ws, data.i)
                      [] data.kind = "float" -> Cur_writeFloat(ws, floatValue(data.s))
                      [] data.kind = "bytes" -> Cur_writeBytes(ws, data.s)
                      [] data.kind = "string" -> Cur_writeString(ws, data.s)
                      [] data.kind = "strings" -> Cur_writeStringSlice(ws, data.ss)
                      [] data.kind = "bool" -> Cur_writeBoolean(ws, data.b))

\* WriteRaw of writer.go: currentOffset advanced by the bytes accepted, then
\* the deferred Flush.
Cur_rawCount(currentOffset, b) ==
    [w |-> bufioFlush([b.w EXCEPT !.currentOffset = @ + b.n]).w,
     offset |-> currentOffset, err |-> b.err]

Cur_WriteRaw(ws, buf) == Cur_rawCount(ws.currentOffset, bufioWrite(ws, buf))

-----------------------------------------------------------------------------
(* byteSeeker: the seekable view of a buffer, [buf, offset].               *)

SeekStart == 0
SeekCurrent == 1
SeekEnd == 2

Zeros(n) == [i \in 1..n |-> 0]

NewByteSeeker(buf) == [buf |-> buf, offset |-> 0]

\* byteSeeker.Read into a fresh p of k zero bytes: p after the call, the
\* count and the error.  b.buf[from:to] panics when from is negative.
byteSeeker_Read(bs, k) ==
    IF bs.offset >= Len(bs.buf)
    THEN [bs |-> bs, n |-> 0, err |-> "EOF", p |-> Zeros(k)]
    ELSE IF bs.offset < 0
    THEN [bs |-> bs, n |-> 0, err |-> "panic", p |-> Zeros(k)]
    ELSE [bs |-> [bs EXCEPT !.offset = Min(bs.offset + k, Len(bs.buf))],
          n |-> Min(bs.offset + k, Len(bs.buf)) - bs.offset,
          err |-> "nil",
          p |-> SubSeq(bs.buf, bs.offset + 1, Min(bs.offset + k, Len(bs.buf)))
                \o Zeros(k - (Min(bs.offset + k, Len(bs.buf)) - bs.offset))]

\* byteSeeker.Read as the other revisions of reader.go have it: end of data
\* when the offset is greater than len(p), and b.buf[from:to] panics when
\* from is negative or greater than to.
Old_byteSeeker_Read(bs, k) ==
    IF bs.offset > k
    THEN [bs |-> bs, n |-> 0, err |-> "EOF", p |-> Zeros(k)]
    ELSE IF bs.offset < 0 \/ bs.offset > Min(bs.offset + k, Len(bs.buf))
    THEN [bs |-> bs, n |-> 0, err |-> "panic", p |-> Zeros(k)]
    ELSE [bs |-> [bs EXCEPT !.offset = Min(bs.offset + k, Len(bs.buf))],
          n |-> Min(bs.offset + k, Len(bs.buf)) - bs.offset,
          err |-> "nil",
          p |-> SubSeq(bs.buf, bs.offset + 1, Min(bs.offset + k, Len(bs.buf)))
                \o Zeros(k - (Min(bs.offset + k, Len(bs.buf)) - bs.offset))]

\* The checks of byteSeeker.Seek, made after b.offset was assigned.
seekCheck(bs) ==
    IF bs.offset > Len(bs.buf) - 1 THEN [bs |-> bs, pos |-> 0, err |-> "EOF"]
    ELSE IF bs.offset < 0 THEN [bs |-> bs, pos |-> 0, err |-> "invalid offset"]
    ELSE [bs |-> bs, pos |-> bs.offset, err |-> "nil"]

byteSeeker_Seek(bs, offset, whence) ==
    IF whence = SeekStart THEN seekCheck([bs EXCEPT !.offset = offset])
    ELSE IF whence = SeekCurrent THEN seekCheck([bs EXCEPT !.offset = @ + offset])
    ELSE IF whence = SeekEnd
         THEN seekCheck([bs EXCEPT !.offset = Len(bs.buf) - 1 + offset])
    ELSE [bs |-> bs, pos |-> 0, err |-> "invalid whence"]

-----------------------------------------------------------------------------
(* The Reader.  A read returns the byteSeeker after the call, the value,   *)
(* the DataType and the error; err = "panic" stands for a panic, which     *)
(* unwinds through every caller the way an error return does.              *)

Ret(bs, val, type, err) ==
    [bs |-> bs, val |-> val, type |-> type, err |-> err, wanted |-> "", got |-> ""]

\* readByte: b[0] of a one-byte read, with the read's error.
firstByte(rd) == [bs |-> rd.bs, val |-> rd.p[1], err |-> rd.err]

readByte(bs) == firstByte(byteSeeker_Read(bs, 1))

\* The return of readInt and readUint once the varint decoded (nn > 0): seek
\* back over the rewindBytes = n - nn bytes read past it, if any; the error is
\* the seek's, or else the read's.
seekReturn(sk, val, type) == Ret(sk.bs, val, type, sk.err)

\* A return that leaves the position after the whole window.
rewind_NoSeek(rd, rewindBytes, val, type) == Ret(rd.bs, val, type, rd.err)

rewind(rd, rewindBytes, val, type) ==
    IF rewindBytes > 0
    THEN seekReturn(byteSeeker_Seek(rd.bs, -rewindBytes, SeekCurrent), val, type)
    ELSE Ret(rd.bs, val, type, rd.err)

\* readUint after r.r.Read(b) returned rd and binary.Uvarint(b) returned u.
uvarintReturn(rd, u) ==
    IF u[2] > 0 THEN rewind(rd, rd.n - u[2], VUint(u[1]), UnsignedInteger)
    ELSE IF u[2] = 0 THEN Ret(rd.bs, VUint(0), UnsignedInteger, "buf too small")
    ELSE Ret(rd.bs, VUint(0), UnsignedInteger, "overflow")

\* The whole window b is decoded, not b[:n].
decodeUint(rd) ==
    IF rd.err # "EOF" /\ rd.err # "nil"
    THEN Ret(rd.bs, VUint(0), UnsignedInteger, rd.err)
    ELSE uvarintReturn(rd, Uvarint(rd.p))

readUint(bs) == decodeUint(byteSeeker_Read(bs, MaxVarintLen64))

varintReturn(rd, u) ==
    IF u[2] > 0 THEN rewind(rd, rd.n - u[2], VInt(u[1]), Integer)
    ELSE IF u[2] = 0 THEN Ret(rd.bs, VInt(0), Integer, "buf too small")
    ELSE Ret(rd.bs, VInt(0), Integer, "overflow")

decodeInt(rd) ==
    IF rd.err # "EOF" /\ rd.err # "nil"
    THEN Ret(rd.bs, VInt(0), Integer, rd.err)
    ELSE varintReturn(rd, Varint(rd.p))

readInt(bs) == decodeInt(byteSeeker_Read(bs, MaxVarintLen64))

\* readBytes(buf): one Read into buf, the count dropped.
readBytes(bs, k) == byteSeeker_Read(bs, k)

\* readString after its readUint returned l, and after readBytes returned rd.
stringReturn(rd) ==
    IF rd.err # "nil" THEN Ret(rd.bs, VString(<<>>), String, rd.err)
    ELSE Ret(rd.bs, VString(rd.p), String, "nil")

stringAfterLen(l) ==
    IF l.err # "nil" THEN Ret(l.bs, VString(<<>>), String, l.err)
    ELSE stringReturn(readBytes(l.bs, l.val.i))

readString(bs) == stringAfterLen(readUint(bs))

\* The Bytes case of ReadGivenType: buf is returned with readBytes' error.
bytesReturn(rd) == Ret(rd.bs, VBytes(rd.p), Bytes, rd.err)

bytesAfterLen(l) ==
    IF l.err # "nil" THEN Ret(l.bs, VNil, Bytes, l.err)
    ELSE bytesReturn(readBytes(l.bs, l.val.i))

byteReturn(b, givenType) == Ret(b.bs, VByte(b.val), givenType, b.err)

booleanReturn(b, givenType) == Ret(b.bs, VBool(b.val # 0), givenType, b.err)

RECURSIVE Read(_, _)
RECURSIVE ReadGivenType(_, _)
RECURSIVE readEntries(_, _, _)

\* One turn of the loop of readKeyValueMap: m so far in t.val, the key read
\* by readString, the value by Read(Any), then m[key] = val.
entryAfterValue(t, key, val, len, i) ==
    IF val.err # "nil" THEN Ret(val.bs, VNil, KeyValueMap, val.err)
    ELSE readEntries(Ret(val.bs,
                         VMap(Append(t.val.es, [k |-> key.val.s, v |-> val.val])),
                         KeyValueMap, "nil"),
                     len, i + 1)

entryAfterKey(t, key, len, i) ==
    IF key.err # "nil" THEN Ret(key.bs, VNil, KeyValueMap, key.err)
    ELSE entryAfterValue(t, key, Read(key.bs, Any), len, i)

readEntries(t, len, i) ==
    IF i >= len THEN t ELSE entryAfterKey(t, readString(t.bs), len, i)

mapAfterLen(l) ==
    IF l.err # "nil" THEN Ret(l.bs, VNil, KeyValueMap, l.err)
    ELSE readEntries(Ret(l.bs, VMap(<<>>), KeyValueMap, "nil"), l.val.i, 0)

readKeyValueMap(bs) == mapAfterLen(readUint(bs))

\* A default case that returns its error instead of panicking.
unknownDataType_Returned(bs) == Ret(bs, VNil, 0, "unknown data type")

\* The default case of ReadGivenType: panic(fmt.Errorf("unknown data type
\* found")).
unknownDataType(bs) == Ret(bs, VNil, 0, "panic")

\* Reader.ReadGivenType: the decoder of the type, a panic for a type with no
\* case.
ReadGivenType(bs, givenType) ==
    CASE givenType = Byte -> byteReturn(readByte(bs), givenType)
      [] givenType = Bytes -> bytesAfterLen(readUint(bs))
      [] givenType = String -> readString(bs)
      [] givenType = Integer -> readInt(bs)
      [] givenType = UnsignedInteger -> readUint(bs)
      [] givenType = Boolean -> booleanReturn(readByte(bs), givenType)
      [] givenType = KeyValueMap -> readKeyValueMap(bs)
      [] OTHER -> unknownDataType(bs)

\* The error of Read when the tag is not the expected type, with the two
\* names its message prints.
mismatchError(bs, expectedType, t) ==
    [bs |-> bs, val |-> VNil, type |-> 0, err |-> "mismatch",
     wanted |-> DataTypeString(expectedType), got |-> DataTypeString(t)]

\* Reader.Read after its readByte returned t.
readTagged(t, expectedType) ==
    IF t.err # "nil" THEN Ret(t.bs, VNil, 0, t.err)
    ELSE IF expectedType # Any /\ t.val # expectedType
         THEN mismatchError(t.bs, expectedType, t.val)
    ELSE ReadGivenType(t.bs, t.val)

Read(bs, expectedType) == readTagged(readByte(bs), expectedType)

\* Reader.ReadRaw: the bytes read into out and their count.
ReadRaw(bs, k) == byteSeeker_Read(bs, k)

\* lz4.UncompressBlock(buf, out): the block whose image buf is, the inverse
\* of CompressBlock.
UncompressBlock(buf) == [i \in 1..Len(buf) |-> (buf[i] + 255) % 256]

\* ReadCompressedBlock after its r.r.Read(buf) returned rd: the error of
\* the read, or the whole of buf decompressed into out.
uncompressReturn(rd) ==
    IF rd.err # "nil" THEN Ret(rd.bs, VBytes(<<>>), 0, rd.err)
    ELSE Ret(rd.bs, VBytes(UncompressBlock(rd.p)), 0, "nil")

\* Reader.ReadCompressedBlock: the bytes left in out.
ReadCompressedBlock(bs) == uncompressReturn(byteSeeker_Read(bs, lz4BlockSize))

-----------------------------------------------------------------------------
(* The inputs of the model. *)

Str_a == <<97>>
Str_b == <<98>>
Str_abc == <<97, 98, 99>>

\* 99.11 as a float64 and 1.5 as a float32, big-endian.
Float64Bits == <<64, 88, 199, 10, 61, 112, 163, 215>>
Float32Bits == <<63, 192, 0, 0>>

ScalarValues ==
    {VBool(TRUE), VBool(FALSE)}
    \cup {VInt(i) : i \in {0, -1, 63, 64, -65, 123123}}
    \cup {VUint(u) : u \in {0, 127, 128, 123123}}
    \cup {VFloat(Float64Bits), VFloat(Float32Bits)}
    \cup {VBytes(<<>>), VBytes(<<254, 237, 250, 206>>)}
    \cup {VString(<<>>), VString(Str_a), VString(Str_abc)}
    \cup {VStrings(<<>>), VStrings(<<Str_a, Str_abc>>), VStrings(<<<<>>>>)}

MapValues ==
    {VMap(<<>>),
     VMap(<<[k |-> Str_a, v |-> VInt(1)]>>),
     VMap(<<[k |-> Str_a, v |-> VInt(1)], [k |-> Str_b, v |-> VString(Str_abc)]>>),
     VMap(<<[k |-> Str_b, v |-> VString(Str_abc)], [k |-> Str_a, v |-> VInt(1)]>>),
     VMap(<<[k |-> Str_a, v |-> VMap(<<[k |-> Str_b, v |-> VBool(TRUE)]>>)]>>)}

Values == ScalarValues \cup MapValues

\* Raw payloads: empty, shorter than a block, one block, one block and a byte.
Payload(n) == [i \in 1..n |-> 240 + (i % 8)]
RawPayloads == {Payload(n) : n \in {0, 1, lz4BlockSize, lz4BlockSize + 1}}

RECURSIVE SeqsOfLen(_, _)
SeqsOfLen(S, n) ==
    IF n = 0 THEN {<<>>}
    ELSE {<<x>> \o t : x \in S, t \in SeqsOfLen(S, n - 1)}

\* The bytes a fresh Writer over a buffer holds after Write of data[i..].
RECURSIVE WriteAll(_, _, _)
WriteAll(ws, data, i) ==
    IF i > Len(data) THEN ws.sink ELSE WriteAll(Write(ws, data[i]).w, data, i + 1)

\* The streams a Reader is given: every value written alone, and integer
\* records written back to back.
IntRecords == {VInt(123123), VInt(-1), VUint(128)}

WrittenStreams ==
    {<<v>> : v \in Values} \cup SeqsOfLen(IntRecords, 2) \cup SeqsOfLen(IntRecords, 3)

\* Buffers made by hand: the extended integer of the Reader's test, tags
\* outside the enumeration, the wildcard as a tag, an Integer tag in front of
\* a String record, a varint cut short, a payload cut short, an empty String
\* in front of an empty Bytes, nothing.
HandBuffers ==
    {<<2, 230, 131, 15, 5, 0, 15>>, <<10>>, <<255, 1>>, <<0, 0>>,
     <<2, 7, 3, 97, 98, 99>>, <<3, 128>>, <<7, 5, 97>>, <<7, 0, 6, 0>>, <<>>}

NewReaderFromBuffer(buf, src) ==
    [state |-> "ready", bs |-> NewByteSeeker(buf), src |-> src]

ReaderInputs ==
    {NewReaderFromBuffer(WriteAll(NewWriterFromBuffer, data, 1), data) :
        data \in WrittenStreams}
    \cup {NewReaderFromBuffer(buf, <<>>) : buf \in HandBuffers}

-----------------------------------------------------------------------------
(* The Writer's calls. *)

WCall(op, arg, ws, x, length) ==
    [op |-> op, arg |-> arg, offset |-> x.offset, length |-> length,
     err |-> x.err, excl |-> ws.excludeWriteType,
     exclAfter |-> x.w.excludeWriteType,
     before |-> Len(ws.sink), after |-> Len(x.w.sink)]

CallWrite ==
    /\ Len(wcalls) < MaxCalls
    /\ \E data \in Values :
          LET x == Write(w, data)
          IN  /\ w' = x.w
              /\ wcalls' = Append(wcalls, WCall("Write", data, w, x, x.length))
    /\ UNCHANGED <<ow, ocalls, r, rcalls>>

CallWriteRaw ==
    /\ Len(wcalls) < MaxCalls
    /\ \E buf \in RawPayloads :
          LET x == WriteRaw(w, buf)
          IN  /\ w' = x.w
              /\ wcalls' = Append(wcalls, WCall("WriteRaw", VBytes(buf), w, x,
                                                HashWriter_Count(x.w) - x.offset))
    /\ UNCHANGED <<ow, ocalls, r, rcalls>>

CallWriteRawByte ==
    /\ Len(wcalls) < MaxCalls
    /\ \E b \in {0, 255} :
          LET x == WriteRawByte(w, b)
          IN  /\ w' = x.w
              /\ wcalls' = Append(wcalls, WCall("WriteRawByte", VByte(b), w, x,
                                                HashWriter_Count(x.w) - x.offset))
    /\ UNCHANGED <<ow, ocalls, r, rcalls>>

CallWriteRawToLZ4Compress ==
    /\ Len(wcalls) < MaxCalls
    /\ \E buf \in RawPayloads :
          \E outs \in SeqsOfLen(CompressOutcomes, Chunks(buf)) :
              LET x == WriteRawToLZ4Compress(w, buf, outs)
              IN  /\ w' = x.w
                  /\ wcalls' = Append(wcalls,
                                      WCall("WriteRawToLZ4Compress",
                                            Val("lz4", FALSE, 0, buf, outs, <<>>),
                                            w, x, x.length))
    /\ UNCHANGED <<ow, ocalls, r, rcalls>>

CallSetExcludeWriteType ==
    /\ \E b \in BOOLEAN :
          /\ b # w.excludeWriteType
          /\ w' = SetExcludeWriteType(w, b)
    /\ UNCHANGED <<wcalls, ow, ocalls, r, rcalls>>

NoReader == [state |-> "none"]

NoWriter == [state |-> "none"]

Init ==
    /\ w = NewWriterFromBuffer
    /\ wcalls = <<>>
    /\ ow = NoWriter
    /\ ocalls = <<>>
    /\ r = NoReader
    /\ rcalls = <<>>

Next ==
    \/ CallWrite
    \/ CallWriteRaw
    \/ CallWriteRawByte
    \/ CallWriteRawToLZ4Compress
    \/ CallSetExcludeWriteType

Spec == Init /\ [][Next]_vars

-----------------------------------------------------------------------------
(* The Reader's calls, on a Reader made from a buffer.  A panic ends the   *)
(* run.                                                                    *)

RCall(op, arg, x) ==
    [op |-> op, arg |-> arg, start |-> r.bs.offset, end |-> x.bs.offset,
     val |-> IF x.err = "panic" THEN VNil ELSE x.val,
     type |-> IF x.err = "panic" THEN 0 ELSE x.type,
     err |-> x.err, wanted |-> x.wanted, got |-> x.got]

CanRead ==
    /\ r.state = "ready"
    /\ Len(rcalls) < MaxReads
    /\ rcalls # <<>> => rcalls[Len(rcalls)].err # "panic"

CallRead ==
    /\ CanRead
    /\ \E expectedType \in Any..KeyValueMap :
          LET x == Read(r.bs, expectedType)
          IN  /\ r' = [r EXCEPT !.bs = x.bs]
              /\ rcalls' = Append(rcalls, RCall("Read", expectedType, x))
    /\ UNCHANGED <<w, wcalls, ow, ocalls>>

CallReadGivenType ==
    /\ CanRead
    /\ \E givenType \in {Byte, Integer, Float} :
          LET x == ReadGivenType(r.bs, givenType)
          IN  /\ r' = [r EXCEPT !.bs = x.bs]
              /\ rcalls' = Append(rcalls, RCall("ReadGivenType", givenType, x))
    /\ UNCHANGED <<w, wcalls, ow, ocalls>>

CallReadRaw ==
    /\ CanRead
    /\ \E k \in {0, 4} :
          LET x == ReadRaw(r.bs, k)
          IN  /\ r' = [r EXCEPT !.bs = x.bs]
              /\ rcalls' = Append(rcalls,
                                  RCall("ReadRaw", k,
                                        Ret(x.bs, VBytes(SubSeq(x.p, 1, x.n)), 0, x.err)))
    /\ UNCHANGED <<w, wcalls, ow, ocalls>>

InitReader ==
    /\ w = NewWriterFromBuffer
    /\ wcalls = <<>>
    /\ ow = NoWriter
    /\ ocalls = <<>>
    /\ r \in ReaderInputs
    /\ rcalls = <<>>

NextReader ==
    \/ CallRead
    \/ CallReadGivenType
    \/ CallReadRaw

SpecReader == InitReader /\ [][NextReader]_vars

-----------------------------------------------------------------------------
(* The Writer over a sink that can stop accepting writes, as a file does   *)
(* once it is closed.                                                      *)

SinkFails ==
    /\ w.open
    /\ w' = [w EXCEPT !.open = FALSE]
    /\ UNCHANGED <<wcalls, ow, ocalls, r, rcalls>>

NextSink ==
    \/ CallWrite
    \/ CallWriteRaw
    \/ CallWriteRawByte
    \/ CallWriteRawToLZ4Compress
    \/ CallSetExcludeWriteType
    \/ SinkFails

SpecSink == Init /\ [][NextSink]_vars

-----------------------------------------------------------------------------
(* Compressed payloads written, then read back block by block by a Reader  *)
(* made from the bytes the Writer's buffer holds.                          *)

CompressPayload == r = NoReader /\ CallWriteRawToLZ4Compress

OpenReader ==
    /\ r = NoReader
    /\ wcalls # <<>>
    /\ r' = NewReaderFromBuffer(w.sink, <<>>)
    /\ UNCHANGED <<w, wcalls, ow, ocalls, rcalls>>

CallReadCompressedBlock ==
    /\ CanRead
    /\ LET x == ReadCompressedBlock(r.bs)
       IN  /\ r' = [r EXCEPT !.bs = x.bs]
           /\ rcalls' = Append(rcalls, RCall("ReadCompressedBlock", lz4BlockSize, x))
    /\ UNCHANGED <<w, wcalls, ow, ocalls>>

NextLZ4 ==
    \/ CompressPayload
    \/ OpenReader
    \/ CallReadCompressedBlock

SpecLZ4 == Init /\ [][NextLZ4]_vars

-----------------------------------------------------------------------------
(* byteSeeker.Read, in the two forms reader.go has it, on a view of a      *)
(* buffer at any offset from 0 to len(buf).                                *)

ViewBuffers == {<<>>, <<7>>, <<254, 237, 250, 206>>, <<1, 2, 3, 4, 5, 6, 7>>}

DestinationLengths == {0, 1, 4, MaxVarintLen64}

\* What a caller of Read sees: the bytes copied into p.
Copied(x) == Ret(x.bs, VBytes(SubSeq(x.p, 1, x.n)), 0, x.err)

CallByteSeekerRead ==
    /\ CanRead
    /\ \E k \in DestinationLengths :
          LET x == byteSeeker_Read(r.bs, k)
          IN  /\ r' = [r EXCEPT !.bs = x.bs]
              /\ rcalls' = Append(rcalls, RCall("byteSeeker.Read", k, Copied(x)))
    /\ UNCHANGED <<w, wcalls, ow, ocalls>>

CallOldByteSeekerRead ==
    /\ CanRead
    /\ \E k \in DestinationLengths :
          LET x == Old_byteSeeker_Read(r.bs, k)
          IN  /\ r' = [r EXCEPT !.bs = x.bs]
              /\ rcalls' = Append(rcalls, RCall("Old.byteSeeker.Read", k, Copied(x)))
    /\ UNCHANGED <<w, wcalls, ow, ocalls>>

InitView ==
    /\ w = NewWriterFromBuffer
    /\ wcalls = <<>>
    /\ ow = NoWriter
    /\ ocalls = <<>>
    /\ \E buf \in ViewBuffers : \E offset \in 0..Len(buf) :
          r = [state |-> "ready", bs |-> [buf |-> buf, offset |-> offset], src |-> <<>>]
    /\ rcalls = <<>>

NextView ==
    \/ CallByteSeekerRead
    \/ CallOldByteSeekerRead

SpecView == InitView /\ [][NextView]_vars

-----------------------------------------------------------------------------
(* Read and Seek on the byte view of a Reader made from a buffer.  The     *)
(* record of a Seek keeps the offset asked for in arg, whence in type and  *)
(* the position returned in val.                                           *)

SeekOffsets == {-5, -1, 0, 1, 4, 9}

Whences == {SeekStart, SeekCurrent, SeekEnd, 3}

CallByteSeekerSeek ==
    /\ CanRead
    /\ \E offset \in SeekOffsets : \E whence \in Whences :
          LET x == byteSeeker_Seek(r.bs, offset, whence)
          IN  /\ r' = [r EXCEPT !.bs = x.bs]
              /\ rcalls' = Append(rcalls,
                                  RCall("byteSeeker.Seek", offset,
                                        Ret(x.bs, VInt(x.pos), whence, x.err)))
    /\ UNCHANGED <<w, wcalls, ow, ocalls>>

InitSeeker ==
    /\ w = NewWriterFromBuffer
    /\ wcalls = <<>>
    /\ ow = NoWriter
    /\ ocalls = <<>>
    /\ r \in {NewReaderFromBuffer(buf, <<>>) : buf \in ViewBuffers}
    /\ rcalls = <<>>

NextSeeker ==
    \/ CallByteSeekerRead
    \/ CallByteSeekerSeek

SpecSeeker == InitSeeker /\ [][NextSeeker]_vars

-----------------------------------------------------------------------------
(* The calls of the Writer of writer.go.  A panic ends the run.            *)

OCall(op, arg, x, length) ==
    [op |-> op, arg |-> arg, offset |-> x.offset, length |-> length,
     err |-> x.err, before |-> Len(ow.ws.sink), after |-> Len(x.w.sink)]

CanCurWrite ==
    /\ ow.state = "ready"
    /\ Len(ocalls) < MaxCalls
    /\ ocalls # <<>> => ocalls[Len(ocalls)].err # "panic"

CallCurWrite ==
    /\ CanCurWrite
    /\ \E data \in Values :
          LET x == Cur_Write(ow.ws, data)
          IN  /\ ow' = [ow EXCEPT !.ws = x.w]
              /\ ocalls' = Append(ocalls, OCall("Write", data, x, x.length))
    /\ UNCHANGED <<w, wcalls, r, rcalls>>

CallCurWriteRaw ==
    /\ CanCurWrite
    /\ \E buf \in RawPayloads :
          LET x == Cur_WriteRaw(ow.ws, buf)
          IN  /\ ow' = [ow EXCEPT !.ws = x.w]
              /\ ocalls' = Append(ocalls,
                                  OCall("WriteRaw", VBytes(buf), x,
                                        x.w.currentOffset - x.offset))
    /\ UNCHANGED <<w, wcalls, r, rcalls>>

InitCur ==
    /\ w = NewWriterFromBuffer
    /\ wcalls = <<>>
    /\ ow = [state |-> "ready", ws |-> Cur_NewWriterFromBuffer]
    /\ ocalls = <<>>
    /\ r = NoReader
    /\ rcalls = <<>>

NextCur ==
    \/ CallCurWrite
    \/ CallCurWriteRaw

SpecCur == InitCur /\ [][NextCur]_vars

-----------------------------------------------------------------------------
(* Properties of the Writer over the HashWriter, under Spec.               *)

\* The bytes call i of the Writer appended to the sink.
Appended(i) == SubSeq(w.sink, wcalls[i].before + 1, wcalls[i].after)

RECURSIVE SumLengths(_, _)
SumLengths(calls, i) ==
    IF i = 0 THEN 0 ELSE calls[i].length + SumLengths(calls, i - 1)

AllSucceeded(calls) == \A i \in DOMAIN calls : calls[i].err = "nil"

IsVarint(c) ==
    /\ Len(c) >= 1
    /\ c[Len(c)] < 128
    /\ \A k \in 1..(Len(c) - 1) : c[k] >= 128

RECURSIVE VarintValue(_, _)
VarintValue(c, k) ==
    IF k > Len(c) THEN 0 ELSE (c[k] % 128) * Pow128(k - 1) + VarintValue(c, k + 1)

\* C5: Write of a signed integer v appends the tag 0x02 and the varint of
\* zigzag(v), Write of an unsigned integer v the tag 0x03 and the varint of
\* v; signed 123123 is 02 E6 83 0F and unsigned 123123 is 03 F3 C1 07.  (With
\* the type byte not excluded.)
C5_IntegerWireFormat ==
    \A i \in DOMAIN wcalls :
        (wcalls[i].op = "Write" /\ wcalls[i].err = "nil" /\ ~wcalls[i].excl) =>
            LET v == wcalls[i].arg.i
                c == Tail(Appended(i))
            IN  /\ wcalls[i].arg.kind = "int" =>
                    /\ Head(Appended(i)) = 2
                    /\ IsVarint(c)
                    /\ VarintValue(c, 1) = (IF v >= 0 THEN 2 * v ELSE -2 * v - 1)
                    /\ v = 123123 => Appended(i) = <<2, 230, 131, 15>>
                /\ wcalls[i].arg.kind = "uint" =>
                    /\ Head(Appended(i)) = 3
                    /\ IsVarint(c)
                    /\ VarintValue(c, 1) = v
                    /\ v = 123123 => Appended(i) = <<3, 243, 193, 7>>

\* Signed 123123 and then a negative integer of two varint bytes were written.
C5_Witness ==
    /\ Len(wcalls) = 2
    /\ wcalls[1].op = "Write" /\ wcalls[1].arg = VInt(123123) /\ ~wcalls[1].excl
    /\ wcalls[2].op = "Write" /\ wcalls[2].arg = VInt(-65) /\ ~wcalls[2].excl
    /\ Appended(1) = <<2, 230, 131, 15>>
    /\ Appended(2) = <<2, 129, 1>>

\* C6: writing the string "abc" to a fresh Writer appends exactly
\* 06 03 61 62 63.
C6_StringWireFormat ==
    (/\ wcalls # <<>>
     /\ wcalls[1].op = "Write"
     /\ wcalls[1].arg = VString(Str_abc)
     /\ ~wcalls[1].excl) =>
        Appended(1) = <<6, 3, 97, 98, 99>>

\* "abc" was written first, to the fresh Writer, and the call succeeded.
C6_Witness ==
    /\ wcalls # <<>>
    /\ wcalls[1].op = "Write"
    /\ wcalls[1].arg = VString(Str_abc)
    /\ ~wcalls[1].excl
    /\ wcalls[1].err = "nil"
    /\ wcalls[1].length = 5

-----------------------------------------------------------------------------
(* Properties of the Writer of writer.go, under SpecCur.                   *)

\* C3: after any sequence of successful Write calls, the offset each call
\* returned is the position of the record's first byte in the output, the
\* number of bytes all earlier calls appended, and its length the number of
\* bytes it appended.
C3_CurrentOffsetAccounting ==
    \A i \in DOMAIN ocalls :
        (/\ \A j \in 1..i : ocalls[j].op = "Write" /\ ocalls[j].err = "nil") =>
            /\ ocalls[i].offset = ocalls[i].before
            /\ ocalls[i].length = ocalls[i].after - ocalls[i].before

\* Two successful Writes, the first of a Boolean.
C3_Witness ==
    /\ Len(ocalls) = 2
    /\ \A j \in 1..2 : ocalls[j].op = "Write" /\ ocalls[j].err = "nil"
    /\ ocalls[1].arg = VBool(TRUE)
    /\ ocalls[2].arg = VBool(FALSE)

-----------------------------------------------------------------------------
(* Properties of the Reader, under SpecReader.                             *)

\* Call i is Read(expectedType).
IsRead(i, expectedType) == rcalls[i].op = "Read" /\ rcalls[i].arg = expectedType

\* The Reader was given the bytes a fresh Writer produced for one value.
OneValueWritten == r.state = "ready" /\ Len(r.src) = 1

\* C1: for every value v Write accepts, Read(Any) on the bytes Write(v)
\* produced on an empty stream returns a value equal to v and the DataType
\* written, with no error and no panic.
C1_RoundTrip ==
    (OneValueWritten /\ rcalls # <<>> /\ IsRead(1, Any)) =>
        /\ rcalls[1].err = "nil"
        /\ rcalls[1].type = TypeOf(r.src[1])
        /\ SameValue(rcalls[1].val, r.src[1])

\* The round trip of a value, made and exact: the signed integer 123123.
C1_Witness ==
    /\ OneValueWritten /\ rcalls # <<>> /\ IsRead(1, Any)
    /\ r.src[1] = VInt(123123)
    /\ rcalls[1].err = "nil"
    /\ rcalls[1].val = VInt(123123)

\* The stream holds integer records only.
IsIntStream(src) ==
    /\ src # <<>>
    /\ \A k \in DOMAIN src : src[k].kind \in {"int", "uint"}

\* The length of an integer record: the tag and the varint.
IntRecordLen(v) ==
    1 + Len(IF v.kind = "int" THEN PutVarint(v.i) ELSE PutUvarint(v.i))

\* The position at which record k + 1 of the stream starts.
RECURSIVE Boundary(_, _)
Boundary(src, k) ==
    IF k = 0 THEN 0 ELSE IntRecordLen(src[k]) + Boundary(src, k - 1)

\* The extended integer of the Reader's test: the record of 123123 with
\* three more bytes after it.
ExtendedInteger == <<2, 230, 131, 15, 5, 0, 15>>

\* C4: Read(Any) of an Integer or UnsignedInteger record returns the value
\* encoded and leaves the position at record start + 1 + the varint's length,
\* whatever follows the record; so successive Read(Any) calls decode integer
\* records written back to back value by value, in order.
C4_VarintRewind ==
    /\ (r.state = "ready" /\ IsIntStream(r.src)) =>
          \A k \in DOMAIN rcalls :
              (k <= Len(r.src) /\ \A j \in 1..k : IsRead(j, Any)) =>
                  /\ rcalls[k].err = "nil"
                  /\ rcalls[k].val = r.src[k]
                  /\ rcalls[k].type = TypeOf(r.src[k])
                  /\ rcalls[k].start = Boundary(r.src, k - 1)
                  /\ rcalls[k].end = Boundary(r.src, k)
    /\ (r.state = "ready" /\ r.bs.buf = ExtendedInteger
        /\ rcalls # <<>> /\ IsRead(1, Any)) =>
          /\ rcalls[1].err = "nil"
          /\ rcalls[1].val = VInt(123123)
          /\ rcalls[1].end = 4

\* Two records read in order from a stream of three, the first with more
\* bytes after it than the window holds, the second with fewer.
C4_Witness ==
    /\ r.state = "ready"
    /\ r.src = <<VInt(123123), VUint(128), VInt(123123)>>
    /\ Len(rcalls) = 2
    /\ IsRead(1, Any) /\ IsRead(2, Any)
    /\ rcalls[1].val = VInt(123123) /\ rcalls[1].end = 4
    /\ rcalls[2].val = VUint(128) /\ rcalls[2].end = 7

\* The count-prefixed layout of a map: the count, then per entry the key as
\* a String without tag and the value as a full tagged record.
RECURSIVE MapLayout(_)
RECURSIVE EntriesLayout(_, _)
ValueRecord(v) ==
    IF v.kind = "kvmap" THEN <<KeyValueMap>> \o MapLayout(v.es)
    ELSE WriteAll(NewWriterFromBuffer, <<v>>, 1)
EntriesLayout(es, i) ==
    IF i > Len(es) THEN <<>>
    ELSE PutUvarint(Len(es[i].k)) \o es[i].k \o ValueRecord(es[i].v)
         \o EntriesLayout(es, i + 1)
MapLayout(es) == PutUvarint(Len(es)) \o EntriesLayout(es, 1)

\* C7: Write of a map with n entries appends the KeyValueMap tag, the varint
\* n, then n entries (key as a String without tag, value as a full tagged
\* record), which is the layout readKeyValueMap consumes, so that decoding
\* the written bytes reproduces the map.
C7_MapFraming ==
    (OneValueWritten /\ r.src[1].kind = "kvmap" /\ rcalls # <<>> /\ IsRead(1, Any)) =>
        /\ r.bs.buf = <<KeyValueMap>> \o MapLayout(r.src[1].es)
        /\ rcalls[1].err = "nil"
        /\ rcalls[1].type = KeyValueMap
        /\ SameValue(rcalls[1].val, r.src[1])

\* The map {"a": 1} was written and Read(Any) was called on its bytes.
C7_Witness ==
    /\ OneValueWritten /\ rcalls # <<>> /\ IsRead(1, Any)
    /\ r.src[1] = VMap(<<[k |-> Str_a, v |-> VInt(1)]>>)

\* Call i is a Read that found a tag byte; the tag.
ReadTag(i) == r.bs.buf[rcalls[i].start + 1]
IsTaggedRead(i) == rcalls[i].op = "Read" /\ rcalls[i].start < Len(r.bs.buf)

\* What the decoder of call i's tag returns, run right after the tag byte.
DecoderOf(i) ==
    ReadGivenType([buf |-> r.bs.buf, offset |-> rcalls[i].start + 1], ReadTag(i))

\* C8: for every expected type other than Any and every tag byte that
\* differs from it, tags outside the enumeration included, Read returns a
\* type-mismatch error naming the wanted and the actual type, no value, and
\* reaches no decoder and no panic; when the tag is the expected type, or the
\* expected type is Any, the decoder of the tag is run.
C8_TypeEnforcement ==
    \A i \in DOMAIN rcalls :
        IsTaggedRead(i) =>
            IF rcalls[i].arg # Any /\ ReadTag(i) # rcalls[i].arg
            THEN /\ rcalls[i].err = "mismatch"
                 /\ rcalls[i].val = VNil
                 /\ rcalls[i].end = rcalls[i].start + 1
                 /\ rcalls[i].wanted = DataTypeString(rcalls[i].arg)
                 /\ rcalls[i].wanted # ""
                 /\ rcalls[i].got = DataTypeString(ReadTag(i))
                 /\ rcalls[i].got # ""
            ELSE /\ rcalls[i].err = DecoderOf(i).err
                 /\ rcalls[i].end = DecoderOf(i).bs.offset
                 /\ rcalls[i].err = "nil" => rcalls[i].val = DecoderOf(i).val

\* A Read for a String met an Integer tag and returned the mismatch.
C8_Witness ==
    /\ rcalls # <<>>
    /\ IsTaggedRead(1) /\ rcalls[1].arg = String /\ ReadTag(1) = Integer
    /\ rcalls[1].err = "mismatch"
    /\ rcalls[1].wanted = "string" /\ rcalls[1].got = "int"

\* C9: when Read fails with a type mismatch the position is what it was
\* before the call, so that a Read(Any) right after it decodes the record
\* whose tag was rejected.
C9_MismatchConsumesNothing ==
    \A i \in DOMAIN rcalls :
        rcalls[i].err = "mismatch" =>
            /\ rcalls[i].end = rcalls[i].start
            /\ (i + 1 \in DOMAIN rcalls /\ IsRead(i + 1, Any)) =>
                  /\ rcalls[i + 1].start = rcalls[i].start
                  /\ rcalls[i + 1].type = ReadTag(i)

\* A mismatch on an Integer record, then Read(Any).
C9_Witness ==
    /\ Len(rcalls) = 2
    /\ r.bs.buf = <<2, 7, 3, 97, 98, 99>>
    /\ rcalls[1].err = "mismatch" /\ rcalls[1].start = 0
    /\ IsRead(2, Any)

\* Call i is Read(Any) on a tag byte outside the enumeration.
IsUnknownTagRead(i) ==
    IsTaggedRead(i) /\ rcalls[i].arg = Any /\ ReadTag(i) > KeyValueMap

\* C10 as stated: Read(Any) on a buffer whose first byte is outside the known
\* tag range returns an error to the caller and never panics.
C10_UnknownTagReturned ==
    \A i \in DOMAIN rcalls :
        IsUnknownTagRead(i) => rcalls[i].err \notin {"panic", "nil"}

\* C10 as amended: Read(Any) on a tag byte outside the enumeration returns
\* nothing: it panics, with the position one past the tag byte.
C10_UnknownTagPanics ==
    \A i \in DOMAIN rcalls :
        IsUnknownTagRead(i) =>
            /\ rcalls[i].err = "panic"
            /\ rcalls[i].val = VNil
            /\ rcalls[i].end = rcalls[i].start + 1

\* Read(Any) was called on a buffer whose first byte is 0x0A.
C10_Witness ==
    /\ rcalls # <<>>
    /\ r.bs.buf = <<10>>
    /\ IsUnknownTagRead(1)
    /\ rcalls[1].err = "panic"

-----------------------------------------------------------------------------
(* Properties of chunked compression, under SpecLZ4.                       *)

\* Every chunk of the call compressed to an image.
AllCompressed(c) == \A i \in DOMAIN c.arg.ss : c.arg.ss[i] = "ok"

\* Slice i of a payload: its next lz4BlockSize bytes, or what is left.
Slice(buf, i) ==
    SubSeq(buf, (i - 1) * lz4BlockSize + 1, Min(i * lz4BlockSize, Len(buf)))

\* The images of the slices i.. of a payload, one after the other.
RECURSIVE SliceImages(_, _)
SliceImages(buf, i) ==
    IF i > Chunks(buf) THEN <<>>
    ELSE CompressBlock(Slice(buf, i), "ok").z \o SliceImages(buf, i + 1)

\* The blocks the first k reads returned, one after the other.
RECURSIVE BlocksRead(_)
BlocksRead(k) == IF k = 0 THEN <<>> ELSE BlocksRead(k - 1) \o rcalls[k].val.s

\* One payload was compressed, chunk by chunk, and a Reader made of the
\* bytes written.
OnePayloadCompressed ==
    /\ r.state = "ready"
    /\ Len(wcalls) = 1
    /\ wcalls[1].op = "WriteRawToLZ4Compress"
    /\ AllCompressed(wcalls[1])

\* C11: a payload written with WriteRawToLZ4Compress is stored as one image
\* per slice of lz4BlockSize bytes, the last one the image of the remaining
\* bytes only, and one ReadCompressedBlock per chunk, in order, returns
\* blocks whose concatenation is the payload.
C11_ChunkedRoundTrip ==
    OnePayloadCompressed =>
        /\ wcalls[1].err = "nil"
        /\ r.bs.buf = SliceImages(wcalls[1].arg.s, 1)
        /\ Len(rcalls) = Chunks(wcalls[1].arg.s) =>
              /\ \A k \in DOMAIN rcalls : rcalls[k].err = "nil"
              /\ BlocksRead(Len(rcalls)) = wcalls[1].arg.s

\* A payload of one block and one byte, stored as two chunks and read back
\* with two calls.
C11_Witness ==
    /\ OnePayloadCompressed
    /\ Len(wcalls[1].arg.s) = lz4BlockSize + 1
    /\ Chunks(wcalls[1].arg.s) = 2
    /\ Len(rcalls) = 2

-----------------------------------------------------------------------------
(* Float records.                                                          *)

\* The buffer starts with a whole Float record.
StartsWithFloat(buf) == Len(buf) >= 9 /\ buf[1] = Float

\* C12: Read(Any) on a buffer that starts with a Float record, the tag 0x04
\* and 8 payload bytes, returns the float64 whose big-endian image the 8
\* bytes are, with type Float, no error, and the position 9 bytes on.
C12_FloatReadable ==
    (r.state = "ready" /\ StartsWithFloat(r.bs.buf) /\ rcalls # <<>> /\ IsRead(1, Any)) =>
        /\ rcalls[1].err = "nil"
        /\ rcalls[1].type = Float
        /\ rcalls[1].val = VFloat(SubSeq(r.bs.buf, 2, 9))
        /\ rcalls[1].end = 9

\* Read(Any) was called on the record of the float64 99.11.
C12_Witness ==
    /\ r.state = "ready"
    /\ r.bs.buf = <<Float>> \o Float64Bits
    /\ rcalls # <<>> /\ IsRead(1, Any)

\* Call i is a Write of a float that returned no error, the tag not
\* suppressed.
IsFloatWrite(i) ==
    /\ wcalls[i].op = "Write"
    /\ wcalls[i].arg.kind = "float"
    /\ wcalls[i].err = "nil"
    /\ ~wcalls[i].excl

\* C13: Write of a Float appends the tag and exactly 8 payload bytes, for a
\* 32-bit input as for a 64-bit one: the position advances by 9, and the
\* bytes the Writer counted are the bytes appended.
C13_FloatWidth ==
    \A i \in DOMAIN wcalls :
        IsFloatWrite(i) =>
            /\ Len(Appended(i)) = 9
            /\ wcalls[i].length = 9
            /\ wcalls[i].length = Len(Appended(i))

\* A float32 and a float64 were written, one after the other.
C13_Witness ==
    /\ Len(wcalls) = 2
    /\ IsFloatWrite(1) /\ wcalls[1].arg = VFloat(Float32Bits)
    /\ IsFloatWrite(2) /\ wcalls[2].arg = VFloat(Float64Bits)

-----------------------------------------------------------------------------
(* Properties of the Writer over a sink that can fail, under SpecSink.     *)

\* C14: whenever an operation of the Writer has returned without error, the
\* sink holds exactly Offset() bytes, nothing is left in the buffer, and
\* CRC32() is the checksum of exactly the bytes the sink holds, in order.
C14_SuccessMeansDelivered ==
    (wcalls # <<>> /\ wcalls[Len(wcalls)].err = "nil") =>
        /\ Len(w.sink) = Offset(w)
        /\ w.pending = <<>>
        /\ HashWriter_CRC32(w) = w.sink

\* A write returned without error after the sink stopped accepting writes.
C14_Witness ==
    /\ ~w.open
    /\ wcalls # <<>>
    /\ wcalls[Len(wcalls)].err = "nil"
    /\ wcalls[Len(wcalls)].length > 0

\* An entry of a map as written: the key's length and bytes, then the
\* value's record with its tag.
EntryWritten(e) ==
    PutUvarint(Len(e.k)) \o e.k \o WriteAll(NewWriterFromBuffer, <<e.v>>, 1)

RECURSIVE EntriesWritten(_, _)
EntriesWritten(es, i) ==
    IF i > Len(es) THEN <<>> ELSE EntryWritten(es[i]) \o EntriesWritten(es, i + 1)

\* Call i is a Write of a map.
IsMapWrite(i) == wcalls[i].op = "Write" /\ wcalls[i].arg.kind = "kvmap"

\* C15: whenever a Write of a KeyValueMap returns, with or without an error,
\* excludeWriteType is what it was before the call; inside the map every key
\* is written without a tag and every value with one, whatever the flag.
C15_TagSuppressionRestored ==
    \A i \in DOMAIN wcalls :
        IsMapWrite(i) =>
            /\ wcalls[i].exclAfter = wcalls[i].excl
            /\ (wcalls[i].err = "nil" /\ wcalls[i].after - wcalls[i].before = wcalls[i].length) =>
                  Appended(i) = (IF wcalls[i].excl THEN <<>> ELSE <<KeyValueMap>>)
                                \o EntriesWritten(wcalls[i].arg.es, 1)

\* A Write of a non-empty map returned an error.
C15_Witness ==
    /\ wcalls # <<>>
    /\ IsMapWrite(Len(wcalls))
    /\ wcalls[Len(wcalls)].arg.es # <<>>
    /\ wcalls[Len(wcalls)].err # "nil"

-----------------------------------------------------------------------------
(* Properties of the byte view, under SpecView.                            *)

\* Call i is a Read of the byte view, in either form.
IsViewRead(i) == rcalls[i].op \in {"byteSeeker.Read", "Old.byteSeeker.Read"}

\* The bytes left in the buffer when call i started.
Remaining(i) == Len(r.bs.buf) - rcalls[i].start

\* C16: in each form of byteSeeker.Read, for every buffer, every offset in
\* 0..len(buf) and every destination length, Read copies min(len(p),
\* len(buf) - offset) bytes from the offset on, advances the offset by that
\* count, and returns end of data, with nothing copied, exactly when the
\* offset is at the end of the buffer.
C16_ReadContract ==
    \A i \in DOMAIN rcalls :
        (IsViewRead(i) /\ rcalls[i].start \in 0..Len(r.bs.buf)) =>
            /\ rcalls[i].err \in {"nil", "EOF"}
            /\ rcalls[i].err = "EOF" <=> Remaining(i) = 0
            /\ rcalls[i].val.s = SubSeq(r.bs.buf, rcalls[i].start + 1,
                                        rcalls[i].start + Min(rcalls[i].arg, Remaining(i)))
            /\ rcalls[i].end = rcalls[i].start + Min(rcalls[i].arg, Remaining(i))

\* The four bytes of the Reader's test read from the start, in each form.
C16_Witness ==
    /\ Len(rcalls) = 2
    /\ r.bs.buf = <<254, 237, 250, 206>>
    /\ rcalls[1].op = "byteSeeker.Read" /\ rcalls[1].start = 0 /\ rcalls[1].arg = 0
    /\ rcalls[2].op = "Old.byteSeeker.Read" /\ rcalls[2].arg = 4
    /\ rcalls[2].val.s = <<254, 237, 250, 206>>

-----------------------------------------------------------------------------
(* Properties of the Reader on sources that end too early, under           *)
(* SpecReader.                                                             *)

\* The source ends inside a varint that starts after position pos: at least
\* one byte is left, fewer than a varint can have, each with its
\* continuation bit set.
TruncatedVarintAt(pos) ==
    /\ pos < Len(r.bs.buf)
    /\ Len(r.bs.buf) - pos < MaxVarintLen64
    /\ \A j \in (pos + 1)..Len(r.bs.buf) : r.bs.buf[j] >= 128

\* Call i decodes an Integer or UnsignedInteger; the position of its varint.
DecodesInteger(i) ==
    \/ /\ IsTaggedRead(i)
       /\ ReadTag(i) \in {Integer, UnsignedInteger}
       /\ rcalls[i].arg \in {Any, ReadTag(i)}
    \/ /\ rcalls[i].op = "ReadGivenType"
       /\ rcalls[i].arg \in {Integer, UnsignedInteger}

VarintPosition(i) ==
    IF rcalls[i].op = "Read" THEN rcalls[i].start + 1 ELSE rcalls[i].start

\* C17: when the source ends in the middle of a varint, decoding an Integer
\* or UnsignedInteger returns the buffer-too-small error and no value.
C17_TruncatedVarint ==
    \A i \in DOMAIN rcalls :
        (DecodesInteger(i) /\ TruncatedVarintAt(VarintPosition(i))) =>
            rcalls[i].err = "buf too small"

\* Read(Any) on an UnsignedInteger tag followed by the single byte 0x80.
C17_Witness ==
    /\ rcalls # <<>>
    /\ r.bs.buf = <<3, 128>>
    /\ IsRead(1, Any)

\* Call i decodes a Bytes or String record whose length prefix is the single
\* byte after the tag.
DecodesPayload(i) ==
    /\ IsTaggedRead(i)
    /\ ReadTag(i) \in {Bytes, String}
    /\ rcalls[i].arg \in {Any, ReadTag(i)}
    /\ rcalls[i].start + 2 <= Len(r.bs.buf)
    /\ r.bs.buf[rcalls[i].start + 2] < 128

\* The length the record declares and the bytes left after the prefix.
DeclaredLength(i) == r.bs.buf[rcalls[i].start + 2]
PayloadLeft(i) == Len(r.bs.buf) - (rcalls[i].start + 2)

\* C18: decoding a Bytes or String record whose length prefix is larger than
\* the number of bytes left in the source returns an end-of-data error; no
\* value of the declared length is returned.
C18_ShortPayload ==
    \A i \in DOMAIN rcalls :
        (DecodesPayload(i) /\ DeclaredLength(i) > PayloadLeft(i)) =>
            rcalls[i].err = "EOF"

\* Read(Any) on a String record that declares 5 bytes and holds 1.
C18_Witness ==
    /\ rcalls # <<>>
    /\ r.bs.buf = <<7, 5, 97>>
    /\ IsRead(1, Any)

-----------------------------------------------------------------------------
(* Compression failures, under Spec.                                       *)

\* Call i compressed a payload, and for one of its chunks the compression
\* returned an error or no output.
IsFailedCompression(i) ==
    /\ wcalls[i].op = "WriteRawToLZ4Compress"
    /\ \E k \in DOMAIN wcalls[i].arg.ss : wcalls[i].arg.ss[k] # "ok"

\* C19: if the block compression returns an error, or no output for a
\* non-empty chunk, WriteRawToLZ4Compress returns an error; it does not
\* report success with a length that leaves the chunk out.
C19_CompressionFailureReported ==
    \A i \in DOMAIN wcalls : IsFailedCompression(i) => wcalls[i].err # "nil"

\* A payload of one chunk whose compression returned an error.
C19_Witness ==
    /\ wcalls # <<>>
    /\ wcalls[1].op = "WriteRawToLZ4Compress"
    /\ wcalls[1].arg.ss = <<"error">>

-----------------------------------------------------------------------------
(* Properties of the byte view's position, under SpecSeeker.               *)

\* Call i is a Seek that failed with "invalid offset" or end of data.
IsFailedSeek(i) ==
    /\ rcalls[i].op = "byteSeeker.Seek"
    /\ rcalls[i].err \in {"invalid offset", "EOF"}

\* C20: after any sequence of byteSeeker.Read and byteSeeker.Seek calls,
\* failed ones included, 0 <= offset <= len(buf); a Seek that fails with
\* "invalid offset" or end of data leaves the position as it was, and no
\* Read indexes outside the buffer.
C20_PositionInvariant ==
    /\ r.bs.offset \in 0..Len(r.bs.buf)
    /\ \A i \in DOMAIN rcalls :
          /\ IsFailedSeek(i) => rcalls[i].end = rcalls[i].start
          /\ rcalls[i].err # "panic"

\* A Seek failed with "invalid offset", and a Read was called after it.
C20_Witness ==
    /\ Len(rcalls) = 2
    /\ rcalls[1].op = "byteSeeker.Seek" /\ rcalls[1].err = "invalid offset"
    /\ rcalls[2].op = "byteSeeker.Read"

-----------------------------------------------------------------------------
(* Empty payloads, under SpecReader.                                       *)

\* Call i decodes a Bytes or String record whose length byte is 0x00.
DecodesEmptyPayload(i) == DecodesPayload(i) /\ DeclaredLength(i) = 0

\* The empty value of a tag.
EmptyValue(t) == IF t = String THEN VString(<<>>) ELSE VBytes(<<>>)

\* C21: a zero-length String or Bytes record is decoded by Read(Any) to the
\* empty value with no error, when it is the last record of the buffer as
\* when other records follow it.
C21_EmptyPayloadAtEnd ==
    \A i \in DOMAIN rcalls :
        DecodesEmptyPayload(i) =>
            /\ rcalls[i].err = "nil"
            /\ rcalls[i].val = EmptyValue(ReadTag(i))
            /\ rcalls[i].type = ReadTag(i)
            /\ rcalls[i].end = rcalls[i].start + 2

\* An empty String with a record after it was read, then the empty Bytes
\* that ends the buffer.
C21_Witness ==
    /\ Len(rcalls) = 2
    /\ r.bs.buf = <<7, 0, 6, 0>>
    /\ IsRead(1, Any) /\ rcalls[1].err = "nil" /\ rcalls[1].val = VString(<<>>)
    /\ IsRead(2, Any) /\ rcalls[2].start = 2

====
